---- MODULE Spec2Model ----
(***************************************************************************)
(* UPD -- Upgrade NPM Package Dependencies (src/upd.js).                   *)
(*                                                                         *)
(* One run of the program: the configuration file is read and parsed, the  *)
(* dependency sections are scanned into the manifest, the registry is      *)
(* queried for every name that has an entry in state "check" (at most      *)
(* argv.concurrency lookups at a time), the results are merged into the    *)
(* manifest and the syntax tree, and the file is written back.             *)
(*                                                                         *)
(* Strings are sequences of tokens.  A token is a tuple whose first        *)
(* element names its kind:                                                 *)
(*   <<"ver", major, minor, patch, pre, build>>  a full version; pre = 0   *)
(*        is a release and pre = n > 0 the pre-release "-n"; build = n > 0 *)
(*        is the build metadata "+n"                                       *)
(*   <<"partial", major, minor>>   "1.2": starts with a digit, no version  *)
(*   <<"op", "^">>, <<"op", "~">>  the range operators                     *)
(*   <<"ws">>  white space, <<"url">>  the text of a URL, <<"quote">> '"'  *)
(***************************************************************************)
EXTENDS Integers, Sequences, FiniteSets, TLC

VARIABLES argv, registry, file, orig, ast, manifest, queue, next, inflight,
          results, i, updates, writes, pc, exitCode, error, run

vars == <<argv, registry, file, orig, ast, manifest, queue, next, inflight,
          results, i, updates, writes, pc, exitCode, error, run>>

(***************************************************************************)
(* Bounds of the model.                                                    *)
(***************************************************************************)
MaxEntries == 3
MaxConcurrency == 2

(***************************************************************************)
(* Tokens and the strings the inputs are drawn from.                       *)
(***************************************************************************)
Ws == <<"ws">>
Url == <<"url">>
Quote == <<"quote">>
Caret == <<"op", "^">>
Tilde == <<"op", "~">>
Partial12 == <<"partial", 1, 2>>
V120 == <<"ver", 1, 2, 0, 0, 0>>
V130 == <<"ver", 1, 3, 0, 0, 0>>
V130b == <<"ver", 1, 3, 0, 0, 1>>
V140 == <<"ver", 1, 4, 0, 0, 0>>
V140pre == <<"ver", 1, 4, 0, 1, 0>>

\* "^1.2.0", " ~ 1.4.0 ", "1.3.0+1", "git+https://...", "1.2"
SpecCaret120 == <<Caret, V120>>
SpecTilde140 == <<Ws, Tilde, Ws, V140, Ws>>
SpecBuild130 == <<V130b>>
SpecUrl == <<Url>>
SpecPartial == <<Partial12>>

SectionOrder == <<"optionalDependencies", "peerDependencies",
                  "devDependencies", "dependencies">>

Names == {"foo-a", "@s/Bar", "bar"}

(***************************************************************************)
(* String.prototype.toLowerCase on the names of the model.                 *)
(***************************************************************************)
toLowerCase(name) == IF name = "@s/Bar" THEN "@s/bar" ELSE name

RegistryNames == {toLowerCase(n) : n \in Names}

(***************************************************************************)
(* JSON.stringify and JSON.parse of a string value.                        *)
(***************************************************************************)
JSONstringify(s) == <<Quote>> \o s \o <<Quote>>

JSONparseString(text) == SubSeq(text, 2, Len(text) - 1)

(***************************************************************************)
(* The specifier grammar of mixin: optional white space, an optional "^"   *)
(* or "~" with optional white space after it, then the captured group (a   *)
(* digit followed by any characters other than "<", ">", "=", "|" and      *)
(* white space), then optional white space up to the end.  SpecMatch(s) is *)
(* the captured group, or the empty string when s does not match.          *)
(***************************************************************************)
IsSpace(t) == t[1] = "ws"

IsDigitStart(t) == t[1] \in {"ver", "partial"}

IsExcluded(t) == t[1] \in {"ws", "cmp"}

RECURSIVE SkipSpaces(_, _)
SkipSpaces(s, k) ==
    IF k <= Len(s) /\ IsSpace(s[k]) THEN SkipSpaces(s, k + 1) ELSE k

RECURSIVE WordEnd(_, _)
WordEnd(s, k) ==
    IF k <= Len(s) /\ ~IsExcluded(s[k]) THEN WordEnd(s, k + 1) ELSE k

SpecMatch(s) ==
    LET k1 == SkipSpaces(s, 1)
        k2 == IF k1 <= Len(s) /\ s[k1][1] = "op"
              THEN SkipSpaces(s, k1 + 1) ELSE k1
    IN  IF k2 <= Len(s) /\ IsDigitStart(s[k2])
        THEN LET e == WordEnd(s, k2 + 1)
             IN  IF SkipSpaces(s, e) > Len(s) THEN SubSeq(s, k2, e - 1)
                 ELSE <<>>
        ELSE <<>>

(***************************************************************************)
(* micromatch([ module ], patterns).length > 0 for the globs of the model: *)
(* "*" stands for any run of characters other than "/".                    *)
(***************************************************************************)
HasSlash(name) == name \in {"@s/Bar"}

GlobMatch(glob, name) ==
    CASE glob = "*" -> ~HasSlash(name)
      [] glob = "foo-*" -> name \in {"foo-a"}
      [] OTHER -> name = glob

Micromatch(name, patterns) ==
    /\ \E k \in 1..Len(patterns) :
          ~patterns[k].neg /\ GlobMatch(patterns[k].glob, name)
    /\ \A k \in 1..Len(patterns) :
          patterns[k].neg => ~GlobMatch(patterns[k].glob, name)

Selected(name, patterns) ==
    \/ Len(patterns) = 0
    \/ Micromatch(name,
          (IF patterns[1].neg THEN <<[neg |-> FALSE, glob |-> "*"]>>
           ELSE <<>>) \o patterns)

(***************************************************************************)
(* mixin: one entry of the manifest per member of a dependency section.    *)
(***************************************************************************)
MixinEntry(section, module, sOld, patterns) ==
    LET m == SpecMatch(sOld)
        state == IF ~Selected(module, patterns) THEN "ignored"
                 ELSE IF m # <<>> THEN "check" ELSE "skipped"
        vOld == IF state = "check" THEN m ELSE sOld
    IN  [name |-> module, section |-> section, sOld |-> sOld, vOld |-> vOld,
         sNew |-> sOld, vNew |-> vOld, state |-> state]

IsTopMember(n, section) == n.path = <<section>>

Mixin(f, section, patterns) ==
    LET members == SelectSeq(f, LAMBDA n : IsTopMember(n, section))
    IN  [k \in 1..Len(members) |->
            MixinEntry(section, members[k].name,
                       JSONparseString(members[k].text), patterns)]

Manifest(f, patterns) ==
    Mixin(f, SectionOrder[1], patterns) \o Mixin(f, SectionOrder[2], patterns)
    \o Mixin(f, SectionOrder[3], patterns) \o Mixin(f, SectionOrder[4], patterns)

(***************************************************************************)
(* JsonAsty.parse and JsonAsty.unparse: one node per string-valued member, *)
(* holding its raw text and its value.                                     *)
(***************************************************************************)
JsonAstyParse(f) ==
    [k \in 1..Len(f) |->
        [path |-> f[k].path, name |-> f[k].name, text |-> f[k].text,
         value |-> JSONparseString(f[k].text)]]

JsonAstyUnparse(tree) ==
    [k \in 1..Len(tree) |->
        [path |-> tree[k].path, name |-> tree[k].name, text |-> tree[k].text]]

(***************************************************************************)
(* astQuery: the value nodes of the members named module that have an      *)
(* ancestor member named section.                                          *)
(***************************************************************************)
InPath(section, path) == \E k \in 1..Len(path) : path[k] = section

\* a variant that takes the first member named module, whatever its section
AstExecuteByName(tree, section, module) ==
    {k \in 1..Len(tree) :
        /\ tree[k].name = module
        /\ \A j \in 1..(k - 1) : tree[j].name # module}

AstExecute(tree, section, module) ==
    {k \in 1..Len(tree) :
        InPath(section, tree[k].path) /\ tree[k].name = module}

(***************************************************************************)
(* Object.keys(checked): the names with an entry in state "check", once    *)
(* each, in the order of their first entry.                                *)
(***************************************************************************)
\* a variant that lists a name once per entry in state "check"
RECURSIVE CheckedAll(_, _)
CheckedAll(m, k) ==
    IF k > Len(m) THEN <<>>
    ELSE IF m[k].state = "check" THEN <<m[k].name>> \o CheckedAll(m, k + 1)
         ELSE CheckedAll(m, k + 1)

\* a variant that lists every name of the manifest, whatever its entries' states
RECURSIVE CheckedNames(_, _)
CheckedNames(m, k) ==
    IF k > Len(m) THEN <<>>
    ELSE IF \A j \in 1..(k - 1) : m[j].name # m[k].name
         THEN <<m[k].name>> \o CheckedNames(m, k + 1)
         ELSE CheckedNames(m, k + 1)

RECURSIVE Checked(_, _)
Checked(m, k) ==
    IF k > Len(m) THEN <<>>
    ELSE IF m[k].state = "check"
            /\ \A j \in 1..(k - 1) :
                  ~(m[j].state = "check" /\ m[j].name = m[k].name)
         THEN <<m[k].name>> \o Checked(m, k + 1)
         ELSE Checked(m, k + 1)

(***************************************************************************)
(* semver: a string is a valid version when it is one "ver" token; the     *)
(* comparison is by major, minor and patch, then a release is greater than *)
(* any of its pre-releases; build metadata does not take part.             *)
(***************************************************************************)
SemverValid(s) == Len(s) = 1 /\ s[1][1] = "ver"

CompareNat(a, b) == IF a < b THEN -1 ELSE IF a > b THEN 1 ELSE 0

ComparePre(a, b) ==
    IF a = 0 /\ b = 0 THEN 0
    ELSE IF a = 0 THEN 1
    ELSE IF b = 0 THEN -1
    ELSE CompareNat(a, b)

SemverCompare(a, b) ==
    LET x == a[1]
        y == b[1]
    IN  IF CompareNat(x[2], y[2]) # 0 THEN CompareNat(x[2], y[2])
        ELSE IF CompareNat(x[3], y[3]) # 0 THEN CompareNat(x[3], y[3])
        ELSE IF CompareNat(x[4], y[4]) # 0 THEN CompareNat(x[4], y[4])
        ELSE ComparePre(x[5], y[5])

\* a variant with the operands exchanged
SemverGtSwapped(a, b) == SemverCompare(b, a) = 1

SemverGt(a, b) == SemverCompare(a, b) = 1

(***************************************************************************)
(* Object.keys(data.versions).sort(semver.rcompare)[0]                     *)
(***************************************************************************)
Greatest(versions) ==
    CHOOSE v \in versions : \A w \in versions : SemverCompare(w, v) <= 0

(***************************************************************************)
(* sOld.replace(new RegExp(escRE(vOld)), vNew): the first occurrence of    *)
(* vOld in sOld is replaced (no token of the model holds a "$").           *)
(***************************************************************************)
Occurs(s, pat, k) ==
    k + Len(pat) - 1 <= Len(s) /\ SubSeq(s, k, k + Len(pat) - 1) = pat

\* a variant that takes the replacement for the whole string
StringReplaceWhole(s, pat, rep) == rep

StringReplace(s, pat, rep) ==
    IF \E k \in 1..Len(s) : Occurs(s, pat, k)
    THEN LET k == CHOOSE j \in 1..Len(s) :
                     Occurs(s, pat, j) /\ \A h \in 1..(j - 1) : ~Occurs(s, pat, h)
         IN  SubSeq(s, 1, k - 1) \o rep \o SubSeq(s, k + Len(pat), Len(s))
    ELSE s

(***************************************************************************)
(* The body of manifest[name].forEach for the entry at index k.  acc holds *)
(* the manifest, the tree, the updates flag and the error thrown, if any.  *)
(***************************************************************************)
\* a variant that sets the value of the node and leaves its text
NodeSetValueOnly(node, sNew) == [node EXCEPT !.value = sNew]

NodeSet(node, sNew) ==
    [node EXCEPT !.text = JSONstringify(sNew), !.value = sNew]

MergeSpec(acc, k, name, vNew, nop) ==
    LET spec == acc.manifest[k]
        set == [spec EXCEPT !.vNew = vNew, !.sNew = vNew]
        kept == [set EXCEPT !.state = "kept"]
        sNew == StringReplace(spec.sOld, spec.vOld, vNew)
        updated == [set EXCEPT !.state = "updated", !.sNew = sNew]
        nodes == AstExecute(acc.ast, spec.section, name)
    IN  IF spec.name # name \/ spec.state # "check" THEN acc
        ELSE IF spec.vOld = vNew THEN [acc EXCEPT !.manifest[k] = kept]
        ELSE IF ~SemverValid(spec.vOld) \/ ~SemverValid(vNew)
        THEN [acc EXCEPT !.manifest[k] = set, !.error = "TypeError"]
        ELSE IF SemverGt(spec.vOld, vNew) THEN [acc EXCEPT !.manifest[k] = kept]
        ELSE IF sNew = spec.sOld
        THEN [acc EXCEPT !.manifest[k] = updated, !.updates = TRUE,
                         !.error = "SubstitutionError"]
        ELSE IF nop
        THEN [acc EXCEPT !.manifest[k] = updated, !.updates = TRUE]
        ELSE IF Cardinality(nodes) # 1
        THEN [acc EXCEPT !.manifest[k] = updated, !.updates = TRUE,
                         !.error = "AstError"]
        ELSE LET n == CHOOSE j \in nodes : TRUE
             IN  [acc EXCEPT !.manifest[k] = updated, !.updates = TRUE,
                             !.ast[n] = NodeSet(acc.ast[n], sNew)]

RECURSIVE ForEachSpec(_, _, _, _, _)
ForEachSpec(acc, k, name, vNew, nop) ==
    IF k > Len(acc.manifest) \/ acc.error # "none" THEN acc
    ELSE ForEachSpec(MergeSpec(acc, k, name, vNew, nop), k + 1, name, vNew, nop)

(***************************************************************************)
(* One iteration of the loop over the results.                             *)
(***************************************************************************)
MergeResult(acc, result, av) ==
    LET data == result.data
        vNew == IF av.greatest THEN Greatest(data.versions) ELSE data.latest
    IN  IF ~av.greatest /\ ~data.hasLatest
        THEN [acc EXCEPT !.error = "NoLatest"]
        ELSE ForEachSpec(acc, 1, result.name, vNew, av.nop)

(***************************************************************************)
(* The rows pushed to the table: the updated entries, or all with "-a".    *)
(***************************************************************************)
TableRows(m, all) ==
    LET shown == SelectSeq(m, LAMBDA spec : spec.state = "updated" \/ all)
    IN  [k \in 1..Len(shown) |->
            [name |-> shown[k].name, older |-> shown[k].sOld,
             newer |-> shown[k].sNew, state |-> shown[k].state]]

(***************************************************************************)
(* The inputs: the configuration file, the command line, the registry.     *)
(***************************************************************************)
\* the last one is a member named like a package below a member
\* "dependencies" that is no dependency section:
\* { "config": { "dependencies": { "foo-a": "^1.2.0" } } }
Slots ==
    << [path |-> <<"devDependencies">>, name |-> "foo-a"],
       [path |-> <<"devDependencies">>, name |-> "@s/Bar"],
       [path |-> <<"dependencies">>, name |-> "foo-a"],
       [path |-> <<"dependencies">>, name |-> "@s/Bar"],
       [path |-> <<"dependencies">>, name |-> "bar"],
       [path |-> <<"config", "dependencies">>, name |-> "foo-a"] >>

SpecPool(slot) ==
    IF Len(slot.path) > 1 THEN {SpecCaret120}
    ELSE IF slot.name = "foo-a"
    THEN {SpecCaret120, SpecTilde140, SpecBuild130, SpecUrl, SpecPartial}
    ELSE IF slot.name = "@s/Bar" THEN {SpecCaret120, SpecUrl}
    ELSE {SpecCaret120}

Absent == <<>>

Assignments ==
    {a \in [1..Len(Slots) -> SpecPool(Slots[1]) \cup {Absent}] :
        /\ \A k \in 1..Len(Slots) :
              a[k] = Absent \/ a[k] \in SpecPool(Slots[k])
        /\ Cardinality({k \in 1..Len(Slots) : a[k] # Absent}) \in 1..MaxEntries}

FileOf(a) ==
    LET all == [k \in 1..Len(Slots) |->
                   [path |-> Slots[k].path, name |-> Slots[k].name,
                    text |-> JSONstringify(a[k])]]
    IN  SelectSeq(all, LAMBDA n : n.text # JSONstringify(Absent))

Files == {FileOf(a) : a \in Assignments}

PatternLists ==
    { <<>>, <<[neg |-> TRUE, glob |-> "foo-*"]>> }

Response(status, hasLatest, latest, versions) ==
    [status |-> status, hasLatest |-> hasLatest, latest |-> latest,
     versions |-> versions]

NotFound == Response(404, FALSE, <<>>, {})
ServerError == Response(500, FALSE, <<>>, {})
Stable130 == Response(200, TRUE, <<V130>>, {<<V120>>, <<V130>>, <<V140pre>>})
NoLatest120 == Response(200, FALSE, <<>>, {<<V120>>})
Pending == Response(0, FALSE, <<>>, {})

Responses(name) ==
    IF name = "foo-a" THEN {NotFound, Stable130, NoLatest120}
    ELSE IF name = "@s/bar" THEN {ServerError, Stable130}
    ELSE {NotFound, Stable130}

\* the registry answers for the names the file declares
DeclaredNames(f) ==
    {toLowerCase(f[k].name) : k \in {j \in 1..Len(f) : Len(f[j].path) = 1}}

Registries(f) ==
    {r \in [DeclaredNames(f) ->
               {NotFound, ServerError, Stable130, NoLatest120}] :
        \A name \in DeclaredNames(f) : r[name] \in Responses(name)}

(***************************************************************************)
(* The state of a run up to the call of awaityMapLimit.                    *)
(***************************************************************************)
Init ==
    /\ argv \in [nop : BOOLEAN, greatest : BOOLEAN,
                 concurrency : 1..MaxConcurrency, patterns : PatternLists]
    /\ file \in Files
    /\ registry \in Registries(file)
    /\ orig = file
    /\ ast = JsonAstyParse(file)
    /\ manifest = Manifest(file, argv.patterns)
    /\ queue = Checked(manifest, 1)
    /\ next = 1
    /\ inflight = {}
    /\ results = <<>>
    /\ i = 1
    /\ updates = FALSE
    /\ writes = 0
    /\ pc = "resolve"
    /\ exitCode = -1
    /\ error = "none"
    /\ run = 1

Min(a, b) == IF a < b THEN a ELSE b

(***************************************************************************)
(* awaityMapLimit(Object.keys(checked), ..., argv.concurrency): the first  *)
(* lookups are started; each lookup that succeeds starts the next one.     *)
(***************************************************************************)
\* a variant that starts every lookup at once
InitialBatchAll(n, c) == 1..n

\* a variant that starts no lookup
InitialBatchNone(n, c) == {}

InitialBatch(n, c) == 1..Min(n, c)

MapLimit ==
    /\ pc = "resolve"
    /\ inflight' = InitialBatch(Len(queue), argv.concurrency)
    /\ next' = Cardinality(inflight') + 1
    /\ results' = [k \in 1..Len(queue) |-> [name |-> queue[k], data |-> Pending]]
    /\ pc' = IF Len(queue) = 0 THEN "merge" ELSE "lookup"
    /\ UNCHANGED <<argv, registry, file, orig, ast, manifest, queue, i,
                   updates, writes, exitCode, error, run>>

Refill(k) ==
    (inflight \ {k}) \cup (IF next <= Len(queue) THEN {next} ELSE {})

\* a variant that merges each result as soon as its lookup succeeds
LookupResolveMerging(k) ==
    /\ pc = "lookup"
    /\ k \in inflight
    /\ registry[toLowerCase(queue[k])].status = 200
    /\ results' = [results EXCEPT
                     ![k].data = registry[toLowerCase(queue[k])]]
    /\ inflight' = Refill(k)
    /\ next' = IF next <= Len(queue) THEN next + 1 ELSE next
    /\ LET acc == MergeResult([manifest |-> manifest, ast |-> ast,
                               updates |-> updates, error |-> "none"],
                              results'[k], argv)
       IN  /\ manifest' = acc.manifest
           /\ ast' = acc.ast
           /\ updates' = acc.updates
           /\ error' = acc.error
           /\ pc' = IF acc.error # "none" THEN "failed"
                    ELSE IF inflight' = {} THEN "done" ELSE "lookup"
           /\ exitCode' = IF acc.error # "none" THEN 1
                          ELSE IF inflight' = {} THEN 0 ELSE exitCode
    /\ UNCHANGED <<argv, registry, file, orig, queue, i, writes, run>>

\* a variant that collects the results in the order the lookups complete
LookupResolveArrival(k) ==
    /\ pc = "lookup"
    /\ k \in inflight
    /\ registry[toLowerCase(queue[k])].status = 200
    /\ LET j == CHOOSE j \in 1..Len(results) :
                    /\ results[j].data = Pending
                    /\ \A l \in 1..(j - 1) : results[l].data # Pending
       IN  results' = [results EXCEPT
                         ![j] = [name |-> queue[k],
                                 data |-> registry[toLowerCase(queue[k])]]]
    /\ inflight' = Refill(k)
    /\ next' = IF next <= Len(queue) THEN next + 1 ELSE next
    /\ pc' = IF inflight' = {} THEN "merge" ELSE "lookup"
    /\ UNCHANGED <<argv, registry, file, orig, ast, manifest, queue, i,
                   updates, writes, exitCode, error, run>>

LookupResolve(k) ==
    /\ pc = "lookup"
    /\ k \in inflight
    /\ registry[toLowerCase(queue[k])].status = 200
    /\ results' = [results EXCEPT
                     ![k].data = registry[toLowerCase(queue[k])]]
    /\ inflight' = Refill(k)
    /\ next' = IF next <= Len(queue) THEN next + 1 ELSE next
    /\ pc' = IF inflight' = {} THEN "merge" ELSE "lookup"
    /\ UNCHANGED <<argv, registry, file, orig, ast, manifest, queue, i,
                   updates, writes, exitCode, error, run>>

(***************************************************************************)
(* A lookup is rejected: the promise of awaityMapLimit is rejected, the    *)
(* catch handler of the run reports the error and exits.                   *)
(***************************************************************************)
\* a variant in which an error does not end the run
ThrownNever(err) == FALSE

Thrown(err) == err # "none"

\* a variant that lets the other lookups finish before the run fails
LookupRejectSettled(k) ==
    /\ pc = "lookup"
    /\ k \in inflight
    /\ registry[toLowerCase(queue[k])].status # 200
    /\ inflight' = Refill(k)
    /\ next' = IF next <= Len(queue) THEN next + 1 ELSE next
    /\ error' = "NotFound"
    /\ pc' = IF inflight' = {} THEN "failed" ELSE "lookup"
    /\ exitCode' = IF inflight' = {} THEN 1 ELSE exitCode
    /\ UNCHANGED <<argv, registry, file, orig, ast, manifest, queue,
                   results, i, updates, writes, run>>

LookupReject(k) ==
    /\ pc = "lookup"
    /\ k \in inflight
    /\ registry[toLowerCase(queue[k])].status # 200
    /\ inflight' = inflight \ {k}
    /\ error' = IF registry[toLowerCase(queue[k])].status = 404
                THEN "NotFound" ELSE "HTTPError"
    /\ pc' = IF Thrown(error') THEN "failed" ELSE "lookup"
    /\ exitCode' = IF Thrown(error') THEN 1 ELSE exitCode
    /\ UNCHANGED <<argv, registry, file, orig, ast, manifest, queue, next,
                   results, i, updates, writes, run>>

(***************************************************************************)
(* The loop over the results, one iteration per step.                      *)
(***************************************************************************)
Merge ==
    /\ pc = "merge"
    /\ i <= Len(results)
    /\ LET acc == MergeResult([manifest |-> manifest, ast |-> ast,
                               updates |-> updates, error |-> error],
                              results[i], argv)
       IN  /\ manifest' = acc.manifest
           /\ ast' = acc.ast
           /\ updates' = acc.updates
           /\ error' = acc.error
           /\ pc' = IF Thrown(acc.error) THEN "failed" ELSE "merge"
           /\ exitCode' = IF Thrown(acc.error) THEN 1 ELSE exitCode
           /\ i' = IF Thrown(acc.error) THEN i ELSE i + 1
    /\ UNCHANGED <<argv, registry, file, orig, queue, next, inflight,
                   results, writes, run>>

(***************************************************************************)
(* The report and the write of the new configuration file.                 *)
(***************************************************************************)
\* a variant that writes the file on every run
ShouldWriteAlways(upd, nop) == TRUE

ShouldWrite(upd, nop) == upd /\ ~nop

\* a variant that leaves the loop one result early
FinishEarly ==
    /\ pc = "merge"
    /\ i >= Len(results)
    /\ IF ShouldWrite(updates, argv.nop)
       THEN file' = JsonAstyUnparse(ast) /\ writes' = writes + 1
       ELSE UNCHANGED <<file, writes>>
    /\ pc' = "done"
    /\ exitCode' = 0
    /\ UNCHANGED <<argv, registry, orig, ast, manifest, queue, next,
                   inflight, results, i, updates, error, run>>

Finish ==
    /\ pc = "merge"
    /\ i > Len(results)
    /\ IF ShouldWrite(updates, argv.nop)
       THEN file' = JsonAstyUnparse(ast) /\ writes' = writes + 1
       ELSE UNCHANGED <<file, writes>>
    /\ pc' = "done"
    /\ exitCode' = 0
    /\ UNCHANGED <<argv, registry, orig, ast, manifest, queue, next,
                   inflight, results, i, updates, error, run>>

(***************************************************************************)
(* The program is run again on the file it wrote, with the same command    *)
(* line and the same registry.                                             *)
(***************************************************************************)
MaxRuns == 2

Rerun ==
    /\ pc = "done"
    /\ writes > 0
    /\ run < MaxRuns
    /\ run' = run + 1
    /\ orig' = file
    /\ ast' = JsonAstyParse(file)
    /\ manifest' = Manifest(file, argv.patterns)
    /\ queue' = Checked(manifest', 1)
    /\ next' = 1
    /\ inflight' = {}
    /\ results' = <<>>
    /\ i' = 1
    /\ updates' = FALSE
    /\ writes' = 0
    /\ pc' = "resolve"
    /\ exitCode' = -1
    /\ error' = "none"
    /\ UNCHANGED <<argv, registry, file>>

Next ==
    \/ MapLimit
    \/ \E k \in 1..Len(queue) : LookupResolve(k)
    \/ \E k \in 1..Len(queue) : LookupReject(k)
    \/ Merge
    \/ Finish
    \/ Rerun

Spec == Init /\ [][Next]_vars

(***************************************************************************)
(* A run from the read of the configuration file on: the file may be       *)
(* missing (fs.existsSync fails) or malformed (JSON.parse throws); both    *)
(* errors are thrown before the manifest is built and end the run in the   *)
(* catch handler.                                                          *)
(***************************************************************************)
\* no file under the path argv.file
NoFile == <<[path |-> <<>>, name |-> "ENOENT", text |-> <<>>]>>

\* { "dependencies": { "bar": "^1.2.0 } }: a string that is not closed
MalformedFile ==
    <<[path |-> <<"dependencies">>, name |-> "bar",
       text |-> <<Quote>> \o SpecCaret120]>>

existsSync(f) == f # NoFile

IsStringText(text) ==
    Len(text) >= 2 /\ text[1] = Quote /\ text[Len(text)] = Quote

JSONparseOk(f) == \A k \in 1..Len(f) : IsStringText(f[k].text)

ReadError(f) ==
    IF ~existsSync(f) THEN "ManifestNotFound"
    ELSE IF ~JSONparseOk(f) THEN "SyntaxError"
    ELSE "none"

\* a variant of the catch handler that reports the error and exits with 0
ProcessExitZero(err) == 0

ProcessExit(err) == IF err # "none" THEN 1 ELSE 0

InitRead ==
    /\ argv \in [nop : BOOLEAN, greatest : BOOLEAN,
                 concurrency : 1..MaxConcurrency, patterns : PatternLists]
    /\ file \in Files \cup {NoFile, MalformedFile}
    /\ registry \in Registries(file)
    /\ orig = file
    /\ error = ReadError(file)
    /\ ast = IF error = "none" THEN JsonAstyParse(file) ELSE <<>>
    /\ manifest = IF error = "none" THEN Manifest(file, argv.patterns)
                  ELSE <<>>
    /\ queue = Checked(manifest, 1)
    /\ next = 1
    /\ inflight = {}
    /\ results = <<>>
    /\ i = 1
    /\ updates = FALSE
    /\ writes = 0
    /\ pc = IF error = "none" THEN "resolve" ELSE "failed"
    /\ exitCode = IF error = "none" THEN -1 ELSE ProcessExit(error)
    /\ run = 1

ReadSpec == InitRead /\ [][Next]_vars

(***************************************************************************)
(* The scheduling of a run: the synchronous steps of main are taken, and   *)
(* every lookup that was started completes, with a result or a failure.    *)
(* Nothing makes the user run the program again.                           *)
(*                                                                         *)
(* MergeStep is an iteration of the loop over the results as seen on pc    *)
(* and i: it is enabled exactly when Merge is, and a step of the run is a  *)
(* MergeStep that changes <<pc, i>> exactly when it is a Merge step.       *)
(***************************************************************************)
MergeStep ==
    /\ pc = "merge"
    /\ i <= Len(results)
    /\ pc' \in {"merge", "failed"}
    /\ i' \in {i, i + 1}

Fairness ==
    /\ WF_vars(MapLimit)
    /\ \A k \in 1..MaxEntries : WF_vars(LookupResolve(k) \/ LookupReject(k))
    /\ WF_<<pc, i>>(MergeStep)
    /\ WF_vars(Finish)

\* the runs for the latest version, without patterns
InitFair == Init /\ ~argv.greatest /\ argv.patterns = <<>>

FairSpec == InitFair /\ [][Next]_vars /\ Fairness

(***************************************************************************)
(* A whole run as a function of its inputs: every lookup answers as the    *)
(* registry says, the results are merged in the order of the names.        *)
(***************************************************************************)
RECURSIVE MergeAll(_, _, _, _)
MergeAll(acc, res, k, av) ==
    IF k > Len(res) \/ acc.error # "none" THEN acc
    ELSE MergeAll(MergeResult(acc, res[k], av), res, k + 1, av)

RunOutcome(f, av, reg) ==
    LET m0 == Manifest(f, av.patterns)
        q == Checked(m0, 1)
        res == [k \in 1..Len(q) |->
                   [name |-> q[k], data |-> reg[toLowerCase(q[k])]]]
        acc == MergeAll([manifest |-> m0, ast |-> JsonAstyParse(f),
                         updates |-> FALSE, error |-> "none"], res, 1, av)
    IN  IF \E k \in 1..Len(res) : res[k].data.status # 200
        THEN [exitCode |-> 1, manifest |-> m0, updates |-> FALSE, file |-> f]
        ELSE IF acc.error # "none"
        THEN [exitCode |-> 1, manifest |-> acc.manifest,
              updates |-> acc.updates, file |-> f]
        ELSE [exitCode |-> 0, manifest |-> acc.manifest,
              updates |-> acc.updates,
              file |-> IF ShouldWrite(acc.updates, av.nop)
                       THEN JsonAstyUnparse(acc.ast) ELSE f]

(***************************************************************************)
(* Definitions shared by the properties.                                   *)
(***************************************************************************)
Entries == 1..Len(manifest)

\* the manifest as mixin built it at the start of the run
Manifest0 == Manifest(orig, argv.patterns)

\* the tree as parsed at the start of the run
Ast0 == JsonAstyParse(orig)

\* the lookups started so far in the run
Started == 1..(next - 1)

LookupsFor(name) == Cardinality({k \in Started : queue[k] = name})

LookupFailed == error \in {"NotFound", "HTTPError"}

(***************************************************************************)
(* C1: in every state of a run the number of lookups that were started and *)
(* have not completed is at most the concurrency bound.                    *)
(***************************************************************************)
C1_ConcurrencyBound == Cardinality(inflight) <= argv.concurrency

\* as many lookups in flight as the bound allows, and a name still queued
C1_Witness ==
    /\ pc = "lookup"
    /\ argv.concurrency = 2
    /\ Cardinality(inflight) = 2
    /\ next <= Len(queue)

(***************************************************************************)
(* C2: in a run in which a fatal error occurred the file is not written:   *)
(* it is still the file the run started from, whatever was merged before.  *)
(***************************************************************************)
C2_NoWriteOnError ==
    (error # "none" \/ pc = "failed") => (writes = 0 /\ file = orig)

\* the tree query failed after an entry was updated and its node patched
C2_Witness ==
    /\ pc = "failed"
    /\ error = "AstError"
    /\ ast # Ast0
    /\ \E k \in Entries :
          /\ manifest[k].state = "updated"
          /\ \E n \in 1..Len(ast) :
                /\ ast[n].path = <<manifest[k].section>>
                /\ ast[n].name = manifest[k].name
                /\ ast[n].value = manifest[k].sNew
                /\ ast[n] # Ast0[n]

(***************************************************************************)
(* C3: the file is written at most once in a run, and only with an entry   *)
(* in state "updated" and without the dry-run flag; a run that ends with   *)
(* no updated entry, or with the flag set, leaves the file as it was.      *)
(***************************************************************************)
C3_WriteOnce ==
    /\ writes <= 1
    /\ writes = 1 =>
          /\ ~argv.nop
          /\ \E k \in Entries : manifest[k].state = "updated"
    /\ (pc = "done" /\ (argv.nop \/ \A k \in Entries : manifest[k].state # "updated"))
          => (writes = 0 /\ file = orig)
    /\ pc # "done" => (writes = 0 /\ file = orig)

\* a run that wrote the file
C3_Witness ==
    /\ pc = "done"
    /\ writes = 1
    /\ file # orig

(***************************************************************************)
(* C4 as stated: every merged entry whose resolved version is lower than   *)
(* its pinned version is in state "kept" and its new specifier is its      *)
(* original specifier.                                                     *)
(***************************************************************************)
Downgrade(spec) ==
    /\ spec.state \in {"kept", "updated"}
    /\ SemverValid(spec.vOld)
    /\ SemverValid(spec.vNew)
    /\ SemverCompare(spec.vNew, spec.vOld) = -1

UpdatedAt(path, name) ==
    \E k \in Entries :
        /\ manifest[k].state = "updated"
        /\ path = <<manifest[k].section>>
        /\ name = manifest[k].name

C5_FormatPreservation ==
    LET ast0 == Ast0
    IN  /\ Len(ast) = Len(orig)
        /\ Len(file) = Len(orig)
        /\ \A n \in 1..Len(orig) :
              /\ ast[n].path = orig[n].path /\ ast[n].name = orig[n].name
              /\ file[n].path = orig[n].path /\ file[n].name = orig[n].name
              /\ ast[n] # ast0[n] => UpdatedAt(orig[n].path, orig[n].name)
              /\ file[n] # orig[n] => UpdatedAt(orig[n].path, orig[n].name)

\* the file was written; a name is declared in two sections, its entry in
\* one of them updated and its entry in the other one not
C5_Witness ==
    /\ pc = "done"
    /\ writes = 1
    /\ \E k1, k2 \in Entries :
          /\ manifest[k1].name = manifest[k2].name
          /\ manifest[k1].state = "updated"
          /\ manifest[k2].state # "updated"
          /\ \E n1, n2 \in 1..Len(file) :
                /\ file[n1].path = <<manifest[k1].section>>
                /\ file[n1].name = manifest[k1].name
                /\ file[n1] # orig[n1]
                /\ file[n2].path = <<manifest[k2].section>>
                /\ file[n2].name = manifest[k2].name
                /\ file[n2] = orig[n2]

(***************************************************************************)
(* C6 as stated: in a run that is done, for every name that has entries in *)
(* several sections exactly one lookup was started, and all its entries    *)
(* hold the same resolved version.                                         *)
(***************************************************************************)
C6_OneLookupAllEntries ==
    pc = "done" =>
        \A k1, k2 \in Entries :
            (k1 # k2 /\ manifest[k1].name = manifest[k2].name)
            => /\ LookupsFor(manifest[k1].name) = 1
               /\ manifest[k1].vNew = manifest[k2].vNew

(***************************************************************************)
(* C6 as amended: at most one lookup is started for a name in a run; once  *)
(* the lookups are over exactly one was started for every name that has an *)
(* entry in state "check" and none for any other name; in a run that is    *)
(* done all the entries of a name that were in state "check" hold the same *)
(* resolved version.                                                       *)
(***************************************************************************)
HasCheck(m0, name) ==
    \E k \in 1..Len(m0) : m0[k].name = name /\ m0[k].state = "check"

C6_Deduplication ==
    LET m0 == Manifest0
    IN  /\ \A name \in Names : LookupsFor(name) <= 1
        /\ pc \in {"merge", "done"} =>
              \A name \in Names :
                  LookupsFor(name) = (IF HasCheck(m0, name) THEN 1 ELSE 0)
        /\ pc = "done" =>
              \A k1, k2 \in Entries :
                  (/\ manifest[k1].name = manifest[k2].name
                   /\ m0[k1].state = "check"
                   /\ m0[k2].state = "check")
                  => manifest[k1].vNew = manifest[k2].vNew

\* a name with two entries in state "check", looked up and merged
C6_Witness ==
    LET m0 == Manifest0
    IN  /\ pc = "done"
        /\ \E k1, k2 \in Entries :
              /\ k1 # k2
              /\ manifest[k1].name = manifest[k2].name
              /\ m0[k1].state = "check"
              /\ m0[k2].state = "check"
              /\ manifest[k1].sOld # manifest[k2].sOld
              /\ LookupsFor(manifest[k1].name) = 1

(***************************************************************************)
(* C7 as stated: a run is declared failed for a failed lookup only once    *)
(* every other requested lookup was started and has completed.             *)
(***************************************************************************)
C7_FailureAfterAllLookups ==
    (pc = "failed" /\ LookupFailed) =>
        /\ next > Len(queue)
        /\ inflight = {}

(***************************************************************************)
(* C7 as amended: the step in which a lookup fails ends the run at once    *)
(* with exit code 1; it starts no queued lookup, the lookups in flight are *)
(* abandoned, nothing is merged, patched or written, and a failed run      *)
(* takes no further step.                                                  *)
(***************************************************************************)
C7_FailFast ==
    [][ /\ pc # "failed"
        /\ (pc = "lookup" /\ error' # "none") =>
              /\ pc' = "failed"
              /\ exitCode' = 1
              /\ next' = next
              /\ inflight' \subseteq inflight
              /\ results' = results
              /\ manifest' = manifest
              /\ ast' = ast
              /\ file' = file ]_vars

\* a lookup failed while another one was in flight and a name was queued
C7_Witness ==
    /\ pc = "failed"
    /\ LookupFailed
    /\ exitCode = 1
    /\ inflight # {}
    /\ next <= Len(queue)

(***************************************************************************)
(* C8: while a lookup is queued or in flight no step changes the manifest, *)
(* the tree or the updates flag, and whenever the merge is under way or    *)
(* over every requested lookup has completed with a result.                *)
(***************************************************************************)
LookupsOutstanding == inflight # {} \/ next <= Len(queue)

C8_TwoPhase ==
    /\ [](pc \in {"merge", "done"} =>
            /\ ~LookupsOutstanding
            /\ Len(results) = Len(queue)
            /\ \A k \in 1..Len(queue) :
                  /\ results[k].name = queue[k]
                  /\ results[k].data = registry[toLowerCase(queue[k])]
                  /\ results[k].data.status = 200)
    /\ [][LookupsOutstanding =>
            (manifest' = manifest /\ ast' = ast /\ updates' = updates)]_vars
    /\ [](pc \in {"resolve", "lookup"} =>
            (manifest = Manifest0 /\ ast = Ast0 /\ ~updates))

\* the merge has begun, after three lookups
C8_Witness ==
    /\ pc = "merge"
    /\ i = 2
    /\ Len(results) = 3
    /\ manifest # Manifest0
    /\ ast # Ast0

(***************************************************************************)
(* C9: a first run that has ended has the exit code, the table rows and    *)
(* the updates flag of the run on the same file, patterns, mode and        *)
(* registry with the dry-run flag the other way, and with the dry-run flag *)
(* set the file is the one the run started from.                           *)
(***************************************************************************)
OtherRun == RunOutcome(orig, [argv EXCEPT !.nop = ~argv.nop], registry)

C9_DryRunEquivalence ==
    (run = 1 /\ pc \in {"done", "failed"}) =>
        /\ exitCode = OtherRun.exitCode
        /\ exitCode = 0 =>
              /\ updates = OtherRun.updates
              /\ \A all \in BOOLEAN :
                    TableRows(manifest, all) = TableRows(OtherRun.manifest, all)
        /\ argv.nop => file = orig

(***************************************************************************)
(* C10: in the run on the file that the first run wrote, with the same     *)
(* command line and registry, no entry becomes updated, the updates flag   *)
(* stays unset, the file is not written, and when the run is done every    *)
(* entry that was in state "check" is in state "kept".                     *)
(***************************************************************************)
C10_Idempotence ==
    LET m0 == Manifest0
    IN
    run > 1 =>
        /\ ~updates
        /\ writes = 0
        /\ file = orig
        /\ \A k \in Entries : manifest[k].state # "updated"
        /\ pc # "failed"
        /\ pc = "done" =>
              \A k \in Entries :
                  /\ manifest[k].state \in {"ignored", "skipped", "kept"}
                  /\ m0[k].state = "check" => manifest[k].state = "kept"

\* the second run is done and kept an entry that holds the resolved version
C10_Witness ==
    /\ run = 2
    /\ pc = "done"
    /\ \E k \in Entries :
          /\ manifest[k].state = "kept"
          /\ manifest[k].vOld = manifest[k].vNew
          /\ manifest[k].sOld \notin SpecPool(Slots[1])

(***************************************************************************)
(* C11: with the pattern list ["!foo-*"] an entry is in state "ignored"    *)
(* exactly when its name matches foo-* (a scoped name such as "@s/Bar" is  *)
(* selected); with no patterns no entry is ignored; and two entries with   *)
(* the same name are classified alike, whatever their section or position. *)
(***************************************************************************)
NotFooPatterns == <<[neg |-> TRUE, glob |-> "foo-*"]>>

C11_FilterCorrectness ==
    LET m0 == Manifest0
    IN  /\ \A k \in 1..Len(m0) :
              /\ argv.patterns = <<>> => m0[k].state # "ignored"
              /\ argv.patterns = NotFooPatterns =>
                    (m0[k].state = "ignored" <=> m0[k].name \in {"foo-a"})
        /\ \A k1, k2 \in 1..Len(m0) :
              m0[k1].name = m0[k2].name =>
                  (m0[k1].state = "ignored" <=> m0[k2].state = "ignored")

(***************************************************************************)
(* C12: an entry that mixin classified "ignored" or "skipped" stays as it  *)
(* was built (state, resolved version, new specifier), its node of the     *)
(* tree and its member of the file stay as they were read, and a lookup is *)
(* started for a name only if an entry of that name is in state "check".   *)
(***************************************************************************)
C12_TerminalStates ==
    LET m0 == Manifest0
        ast0 == Ast0
    IN  /\ Len(manifest) = Len(m0)
        /\ \A k \in 1..Len(m0) :
              m0[k].state \in {"ignored", "skipped"} =>
                  /\ manifest[k] = m0[k]
                  /\ \A n \in 1..Len(ast) :
                        (ast[n].path = <<m0[k].section>>
                         /\ ast[n].name = m0[k].name)
                        => (ast[n] = ast0[n] /\ file[n] = orig[n])
        /\ \A k \in Started : HasCheck(m0, queue[k])

\* a name with a skipped entry in one section and an updated entry in
\* another one: looked up once, the skipped entry and its member untouched
C12_Witness ==
    /\ pc = "done"
    /\ writes = 1
    /\ \E k1, k2 \in Entries :
          /\ manifest[k1].name = manifest[k2].name
          /\ manifest[k1].state = "skipped"
          /\ manifest[k1].sNew = manifest[k1].sOld
          /\ manifest[k2].state = "updated"
          /\ LookupsFor(manifest[k1].name) = 1

(***************************************************************************)
(* C13: a run that is done has exit code 0, also with nothing to update;   *)
(* a run in which an error was thrown (no file, a malformed file, a failed *)
(* lookup, no latest version, an invalid version, a failed substitution or *)
(* tree query) has failed with exit code 1; a run under way has not exited.*)
(***************************************************************************)
C13_ExitStatus ==
    /\ pc = "done" => (exitCode = 0 /\ error = "none")
    /\ pc = "failed" => (exitCode = 1 /\ error # "none")
    /\ error # "none" => pc = "failed"
    /\ (~existsSync(orig) \/ ~JSONparseOk(orig)) => pc = "failed"
    /\ pc \in {"resolve", "lookup", "merge"} => exitCode = -1

\* the configuration file is malformed: the run failed before any lookup
C13_Witness ==
    /\ orig = MalformedFile
    /\ pc = "failed"
    /\ error = "SyntaxError"
    /\ exitCode = 1
    /\ next = 1

(***************************************************************************)
(* C14: an entry is in state "updated" only if its resolved version is     *)
(* greater than its pinned version in semantic-version order, and in state *)
(* "kept" only if the two are equal or the pinned one is greater; two      *)
(* versions of equal precedence never give "updated".                      *)
(***************************************************************************)
C14_PlannerDecision ==
    \A k \in Entries :
        /\ manifest[k].state = "updated" =>
              /\ SemverValid(manifest[k].vOld)
              /\ SemverValid(manifest[k].vNew)
              /\ SemverCompare(manifest[k].vNew, manifest[k].vOld) = 1
        /\ manifest[k].state = "kept" =>
              \/ manifest[k].vNew = manifest[k].vOld
              \/ /\ SemverValid(manifest[k].vOld)
                 /\ SemverValid(manifest[k].vNew)
                 /\ SemverCompare(manifest[k].vOld, manifest[k].vNew) = 1

(***************************************************************************)
(* C15: for every entry in state "updated" the tree query for its section  *)
(* and name matches exactly one node, or else the run has failed; and when *)
(* the run writes the file (no dry run) the matched node holds the entry's *)
(* new specifier, so no entry is updated without its node being patched.   *)
(***************************************************************************)
C15_ExactlyOneNode ==
    \A k \in Entries :
        manifest[k].state = "updated" =>
            LET nodes == AstExecute(ast, manifest[k].section, manifest[k].name)
            IN  /\ Cardinality(nodes) # 1 =>
                      (pc = "failed" /\ error = "AstError")
                /\ (Cardinality(nodes) = 1 /\ ~argv.nop) =>
                      \A n \in nodes :
                          /\ ast[n].value = manifest[k].sNew
                          /\ ast[n].text = JSONstringify(manifest[k].sNew)

(***************************************************************************)
(* C17: whatever the order in which the lookups complete, the results sit  *)
(* in the order of the names, and a run that has ended has the exit code,  *)
(* the manifest (state and new specifier of every entry), the updates flag *)
(* and the file that its file, command line and registry determine.        *)
(***************************************************************************)
C17_MergeDeterminism ==
    /\ pc \in {"lookup", "merge", "done"} =>
          /\ Len(results) = Len(queue)
          /\ \A k \in 1..Len(queue) :
                /\ results[k].name = queue[k]
                /\ results[k].data \in
                      {Pending, registry[toLowerCase(queue[k])]}
    /\ pc \in {"done", "failed"} =>
          LET out == RunOutcome(orig, argv, registry)
          IN  /\ exitCode = out.exitCode
              /\ manifest = out.manifest
              /\ updates = out.updates
              /\ file = out.file

\* the lookup of the second name has completed before the one of the first
C17_Witness ==
    /\ pc = "lookup"
    /\ Len(queue) >= 2
    /\ 1 \in inflight
    /\ results[1].data = Pending
    /\ results[2].data = registry[toLowerCase(queue[2])]
    /\ results[2].data.status = 200

(***************************************************************************)
(* C18: the new specifier of an entry in state "updated" is its original   *)
(* specifier with the pinned version replaced by the resolved version, the *)
(* characters before and after it kept; and unless the run is a dry run,   *)
(* the single node of the entry holds this new specifier as its value and  *)
(* its JSON text, and so does the file once it is written.                 *)
(***************************************************************************)
C18_NewSpecifier ==
    \A k \in Entries :
        manifest[k].state = "updated" =>
            LET spec == manifest[k]
                nodes == AstExecute(ast, spec.section, spec.name)
            IN  /\ \E a \in 0..Len(spec.sOld) :
                      LET pre == SubSeq(spec.sOld, 1, a)
                          suf == SubSeq(spec.sOld, a + Len(spec.vOld) + 1,
                                        Len(spec.sOld))
                      IN  /\ a + Len(spec.vOld) <= Len(spec.sOld)
                          /\ spec.sOld = pre \o spec.vOld \o suf
                          /\ spec.sNew = pre \o spec.vNew \o suf
                /\ (~argv.nop /\ Cardinality(nodes) = 1) =>
                      \A n \in nodes :
                          /\ ast[n].path = <<spec.section>>
                          /\ ast[n].value = spec.sNew
                          /\ ast[n].text = JSONstringify(spec.sNew)
                          /\ writes = 1 => file[n].text = JSONstringify(spec.sNew)

\* "^1.2.0" with the resolved version 1.3.0 gave "^1.3.0", written to the file
C18_Witness ==
    /\ pc = "done"
    /\ writes = 1
    /\ \E k \in Entries :
          /\ manifest[k].state = "updated"
          /\ manifest[k].sOld = SpecCaret120
          /\ manifest[k].vNew = <<V130>>
          /\ manifest[k].sNew = <<Caret, V130>>
          /\ \E n \in 1..Len(file) :
                /\ file[n].path = <<manifest[k].section>>
                /\ file[n].name = manifest[k].name
                /\ file[n].text = <<Quote, Caret, V130, Quote>>

(***************************************************************************)
(* C19: when a run is done every entry is in state "ignored", "skipped",   *)
(* "kept" or "updated", none in "todo" or "check", and the updates flag is *)
(* set exactly when some entry is in state "updated".                      *)
(***************************************************************************)
C19_FinalStates ==
    pc = "done" =>
        /\ \A k \in Entries :
              manifest[k].state \in {"ignored", "skipped", "kept", "updated"}
        /\ updates <=> \E k \in Entries : manifest[k].state = "updated"

\* a run that is done with an updated, a kept and a skipped or ignored entry
C19_Witness ==
    /\ pc = "done"
    /\ updates
    /\ \E k1, k2, k3 \in Entries :
          /\ manifest[k1].state = "updated"
          /\ manifest[k2].state = "kept"
          /\ manifest[k3].state \in {"ignored", "skipped"}

(***************************************************************************)
(* C20: for every concurrency bound of the model, when every lookup that   *)
(* was started completes, a run under way ends, done or failed; a run is   *)
(* done only after every queued name was looked up; every queued name is   *)
(* started or the run fails; and while a name is queued as many lookups as *)
(* the bound allows are in flight.                                         *)
(***************************************************************************)
Running == pc \in {"resolve", "lookup", "merge"}

C20_Termination ==
    /\ Running ~> (pc \in {"done", "failed"})
    /\ \A k \in 1..MaxEntries :
          (pc = "lookup" /\ next <= k /\ k <= Len(queue))
              ~> (k < next \/ pc = "failed")
    /\ [](pc = "done" => (next > Len(queue) /\ inflight = {}))
    /\ []((pc = "lookup" /\ next <= Len(queue)) =>
             Cardinality(inflight) = argv.concurrency)

\* a run is done in which names had to wait for a lookup to complete
C20_Witness ==
    /\ pc = "done"
    /\ Len(queue) > argv.concurrency
    /\ next > Len(queue)
    /\ inflight = {}

====
